---- MODULE Spec2Model ----
(***************************************************************************)
(* A model of kubefs (src/main.rs): a read-only FUSE filesystem that shows *)
(* the namespaces of a Kubernetes cluster as directories under the root    *)
(* and the pods of a namespace as entries of that directory.               *)
(*                                                                         *)
(* The state is the KubeFS struct (directory, namespace_directory, cache), *)
(* the value DefaultHasher gives to each resource, whether a handler has   *)
(* panicked, the request being served together with the replies the        *)
(* handler sent on its reply handle and the get_pods calls it made, and    *)
(* the requests the kernel has sent that wait for the session.             *)
(***************************************************************************)
EXTENDS Integers, Sequences, FiniteSets, TLC

VARIABLES hasher, directory, namespace_directory, cache, crashed, last, batch

vars == <<hasher, directory, namespace_directory, cache, crashed, last, batch>>

----------------------------------------------------------------------------
(* Bounds of the model *)

\* longest namespace listing get_namespaces returns
MaxNs == 2
\* longest pod listing get_pods returns
MaxPods == 2
\* readdir is asked with the offsets 0 .. MaxOffset
MaxOffset == 4

NsNames == {"default", "kube-system"}
PodNames == {"web-1", "db-0"}
\* a name no listing ever returns
MissingName == "missing"
LookupNames == NsNames \cup PodNames \cup {MissingName}

\* an identifier no resource hashes to
UnknownInode == 99

----------------------------------------------------------------------------
(* Constants of the program *)

ROOT == 1
HELLO_TXT_INO == 2
ENOENT == "ENOENT"
ENOSYS == "ENOSYS"

HELLO_DIR_ATTR ==
    [ino |-> 1, size |-> 0, kind |-> "Directory", perm |-> 493, nlink |-> 2]

HELLO_TXT_CONTENT ==
    <<"H", "e", "l", "l", "o", " ", "W", "o", "r", "l", "d", "!", "\n">>

HELLO_TXT_ATTR ==
    [ino |-> 2, size |-> 13, kind |-> "RegularFile", perm |-> 420, nlink |-> 1]

----------------------------------------------------------------------------
(* Sequences and ordered maps *)

\* the sequences over S of length at most n in which no element repeats
RECURSIVE DistinctSeqs(_, _)
DistinctSeqs(S, n) ==
    IF n = 0 \/ S = {} THEN {<<>>}
    ELSE {<<>>} \cup
         UNION {{<<x>> \o t : t \in DistinctSeqs(S \ {x}, n - 1)} : x \in S}

\* the elements of a set of numbers in increasing order: a BTreeMap iterates
\* its keys in this order
RECURSIVE SortedSeq(_)
SortedSeq(S) ==
    IF S = {} THEN <<>>
    ELSE LET m == CHOOSE x \in S : \A y \in S : x <= y
         IN  <<m>> \o SortedSeq(S \ {m})

Range(f) == {f[x] : x \in DOMAIN f}

EmptyMap == [k \in {} |-> 0]

\* BTreeMap::insert: a later insert under the same key replaces the value
Insert(map, k, v) == [x \in (DOMAIN map) \cup {k} |-> IF x = k THEN v ELSE map[x]]

----------------------------------------------------------------------------
(* KubernetesResource *)

new_namespace(name) ==
    [scope |-> "Cluster", name |-> name, namespace |-> "",
     kind |-> "namespace", group |-> "corev1", file_type |-> "Directory"]

\* the struct literal populate_namespaces_directory builds for a pod
new_pod(pod, namespace_name) ==
    [scope |-> "Namespaced", name |-> pod, namespace |-> namespace_name,
     kind |-> "Pod", group |-> "corev1", file_type |-> "RegularFile"]

AllResources ==
    {new_namespace(n) : n \in NsNames} \cup
    {new_pod(p, n) : p \in PodNames, n \in NsNames}

\* One outcome of DefaultHasher over the derived Hash of every resource. The
\* hash is a fixed function of the resource's fields, unknown to the program:
\* d and k are the values of the two namespaces, dw, dd, kw, kd those of the
\* pods web-1 and db-0 of default and of kube-system.
SipHash(d, k, dw, dd, kw, kd) ==
    [r \in AllResources |->
        IF r.scope = "Cluster"
        THEN (IF r.name = "default" THEN d ELSE k)
        ELSE IF r.namespace = "default"
             THEN (IF r.name = "web-1" THEN dw ELSE dd)
             ELSE (IF r.name = "web-1" THEN kw ELSE kd)]

\* The hash values the model considers: all distinct; two namespaces with one
\* value; a pod with the value of a namespace; values 1 and 2.
Hashers ==
    { SipHash(10, 11, 20, 21, 22, 23),
      SipHash(10, 10, 20, 21, 20, 23),
      SipHash(10, 11, 11, 21, 22, 23),
      SipHash(1, 11, 2, 21, 22, 23) }

inode(resource) == hasher[resource]

\* the `match &resource.reference` of the handlers: the bare name in both arms
reference_name(resource) == resource.name

\* file_attr that copies the identifier of HELLO_DIR_ATTR with its other fields
file_attr_root_ino(resource) ==
    [ino |-> HELLO_DIR_ATTR.ino, size |-> 1, kind |-> "Directory",
     perm |-> 508, nlink |-> 1]

file_attr(resource) ==
    [ino |-> inode(resource), size |-> 1, kind |-> "Directory",
     perm |-> 508, nlink |-> 1]

----------------------------------------------------------------------------
(* The remote listings *)

\* what get_namespaces_blocking can return to KubeFS::new
NamespaceListings == DistinctSeqs(NsNames, MaxNs)

\* what get_pods can return: Ok(names) or Err
FetchResults ==
    {[ok |-> TRUE, pods |-> s] : s \in DistinctSeqs(PodNames, MaxPods)}
    \cup {[ok |-> FALSE, pods |-> <<>>]}

----------------------------------------------------------------------------
(* KubeFS *)

RECURSIVE populate_directory_with_namespaces(_, _)
populate_directory_with_namespaces(dir, namespaces) ==
    IF namespaces = <<>> THEN dir
    ELSE LET k == new_namespace(Head(namespaces))
         IN  populate_directory_with_namespaces(
                 Insert(dir, inode(k), k), Tail(namespaces))

\* one call of get_pods: the namespace asked for, whether it returned Ok
\* and with which names
Fetch(namespace_name, result) ==
    [namespace |-> namespace_name, ok |-> result.ok, pods |-> result.pods]

\* populate_namespaces_directory(inode) when get_pods would return `result`:
\* whether it panicked, the calls of get_pods it made, and
\* namespace_directory afterwards.
populate_namespaces_directory(ino, result) ==
    IF ino \notin DOMAIN directory
    THEN \* None => unimplemented!()
         [panic |-> TRUE, fetched |-> <<>>, nd |-> namespace_directory]
    ELSE LET namespace_name == reference_name(directory[ino])
         IN  IF ~result.ok
             THEN \* .expect("Error fetching Pods from kube-api")
                  [panic |-> TRUE, fetched |-> <<Fetch(namespace_name, result)>>,
                   nd |-> namespace_directory]
             ELSE LET resources ==
                          [i \in 1..Len(result.pods) |->
                              new_pod(result.pods[i], namespace_name)]
                  IN  [panic |-> FALSE, fetched |-> <<Fetch(namespace_name, result)>>,
                       nd |-> Insert(namespace_directory, ino, resources)]

\* the outcome of a handler that does not call populate_namespaces_directory
NotPopulated == [panic |-> FALSE, fetched |-> <<>>, nd |-> namespace_directory]

find_namespaced_resources(nd, ino) ==
    IF ino \in DOMAIN nd THEN nd[ino] ELSE <<>>

----------------------------------------------------------------------------
(* Requests and replies *)

NoRequest ==
    [op |-> "none", ino |-> 0, name |-> "", offset |-> 0,
     replies |-> <<>>, fetched |-> <<>>]

Request(op, ino, name, offset, replies, fetched) ==
    [op |-> op, ino |-> ino, name |-> name, offset |-> offset,
     replies |-> replies, fetched |-> fetched]

\* Requests that reach the session together: those not yet given to a
\* handler, and the handled ones with what their handlers did. NoBatch when
\* requests come one at a time.
NoBatch == [pending |-> <<>>, served |-> <<>>]

Pending(op, ino, name, offset) ==
    [op |-> op, ino |-> ino, name |-> name, offset |-> offset]

NoAttr == [ino |-> 0, size |-> 0, kind |-> "", perm |-> 0, nlink |-> 0]

Reply(kind, errno, attr, entries, data) ==
    [kind |-> kind, errno |-> errno, attr |-> attr, entries |-> entries,
     data |-> data]

ReplyEntry(attr) == Reply("entry", "", attr, <<>>, <<>>)
ReplyAttr(attr) == Reply("attr", "", attr, <<>>, <<>>)
ReplyData(data) == Reply("data", "", NoAttr, <<>>, data)
ReplyDirectory(entries) == Reply("directory", "", NoAttr, entries, <<>>)
ReplyError(errno) == Reply("error", errno, NoAttr, <<>>, <<>>)
ReplyOpened == Reply("opened", "", NoAttr, <<>>, <<>>)
ReplyOk == Reply("ok", "", NoAttr, <<>>, <<>>)
ReplyStatfs == Reply("statfs", "", NoAttr, <<>>, <<>>)

\* the identifiers a request can carry
ReqInodes == {ROOT, HELLO_TXT_INO, UnknownInode} \cup Range(hasher)

TypeOK ==
    /\ hasher \in Hashers
    /\ DOMAIN directory \subseteq Range(hasher)
    /\ DOMAIN namespace_directory \subseteq DOMAIN directory
    /\ cache = FALSE
    /\ crashed \in BOOLEAN
    /\ last.op = "none" => last = NoRequest
    /\ Len(batch.pending) + Len(batch.served) \in {0, 1, 2}

----------------------------------------------------------------------------
(* Construction: KubeFS::new *)

Init ==
    /\ hasher \in Hashers
    /\ \E namespaces \in NamespaceListings :
           directory = populate_directory_with_namespaces(EmptyMap, namespaces)
    /\ namespace_directory = EmptyMap
    /\ cache = FALSE
    /\ crashed = FALSE
    /\ last = NoRequest
    /\ batch = NoBatch

\* the handler is entered: the session is alive and serves no other request
Idle == ~crashed /\ last.op = "none"

\* the handler returned and its reply handle is gone: the session loop of
\* fuser::mount2 takes the next request
complete ==
    /\ ~crashed
    /\ last.op # "none"
    /\ last' = NoRequest
    /\ batch' = IF batch = NoBatch THEN batch
                ELSE [batch EXCEPT !.served = Append(@, last)]
    /\ UNCHANGED <<hasher, directory, namespace_directory, cache, crashed>>

----------------------------------------------------------------------------
(* Filesystem for KubeFS: lookup, getattr, read, readdir *)

\* the values of a BTreeMap in the order `.iter()` visits them
Values(map) ==
    LET keys == SortedSeq(DOMAIN map)
    IN  [i \in 1..Len(keys) |-> map[keys[i]]]

\* the position of the first resource the scan `if *name == sname` matches,
\* 0 when the loop ends without a match
FirstMatch(resources, sname) ==
    LET hits == {i \in 1..Len(resources) : reference_name(resources[i]) = sname}
    IN  IF hits = {} THEN 0 ELSE CHOOSE i \in hits : \A j \in hits : i <= j

\* the replies the scan of lookup sends: reply.entry at the first match, and
\* nothing at all when the loop ends without one
ScanReplies(resources, sname) ==
    LET m == FirstMatch(resources, sname)
    IN  IF m = 0 THEN <<>> ELSE <<ReplyEntry(file_attr(resources[m]))>>

\* lookup without the contains_key test: it fetches on every call, as readdir
\* does
lookup_always_populates(parent, sname, result) ==
    IF parent = ROOT
    THEN [pop |-> NotPopulated,
          replies |-> ScanReplies(Values(directory), sname)]
    ELSE LET pop == populate_namespaces_directory(parent, result)
         IN  [pop |-> pop,
              replies |-> IF pop.panic \/ parent \notin DOMAIN pop.nd
                          THEN <<>>
                          ELSE ScanReplies(pop.nd[parent], sname)]

\* lookup that, under the root, also fetches the pods of the namespace it
\* finds
lookup_prefetches(parent, sname, result) ==
    IF parent = ROOT
    THEN LET m == FirstMatch(Values(directory), sname)
         IN  [pop |-> IF m = 0 THEN NotPopulated
                      ELSE populate_namespaces_directory(
                               inode(Values(directory)[m]), result),
              replies |-> ScanReplies(Values(directory), sname)]
    ELSE LET pop == IF parent \notin DOMAIN namespace_directory
                    THEN populate_namespaces_directory(parent, result)
                    ELSE NotPopulated
         IN  [pop |-> pop,
              replies |-> IF pop.panic \/ parent \notin DOMAIN pop.nd
                          THEN <<>>
                          ELSE ScanReplies(pop.nd[parent], sname)]

\* lookup(parent, name) when get_pods would return `result`
lookup_outcome(parent, sname, result) ==
    IF parent = ROOT
    THEN [pop |-> NotPopulated,
          replies |-> ScanReplies(Values(directory), sname)]
    ELSE LET pop == IF parent \notin DOMAIN namespace_directory
                    THEN populate_namespaces_directory(parent, result)
                    ELSE NotPopulated
         IN  [pop |-> pop,
              replies |-> IF pop.panic \/ parent \notin DOMAIN pop.nd
                          THEN <<>>
                          ELSE ScanReplies(pop.nd[parent], sname)]

\* what the handler lookup does to the filesystem and to its reply handle
lookup_step(parent, sname) ==
    \E result \in FetchResults :
        LET out == lookup_outcome(parent, sname, result)
        IN  /\ last' = Request("lookup", parent, sname, 0, out.replies,
                               out.pop.fetched)
            /\ namespace_directory' = out.pop.nd
            /\ crashed' = out.pop.panic
            /\ UNCHANGED <<directory, cache>>

lookup ==
    /\ Idle
    /\ \E parent \in ReqInodes, sname \in LookupNames : lookup_step(parent, sname)
    /\ UNCHANGED <<hasher, batch>>

getattr_outcome(ino) ==
    IF ino = 1 THEN <<ReplyAttr(HELLO_DIR_ATTR)>>
    ELSE IF ino = 2 THEN <<ReplyAttr(HELLO_TXT_ATTR)>>
    ELSE <<ReplyAttr(HELLO_DIR_ATTR)>>

getattr ==
    /\ Idle
    /\ \E ino \in ReqInodes :
           last' = Request("getattr", ino, "", 0, getattr_outcome(ino), <<>>)
    /\ UNCHANGED <<hasher, directory, namespace_directory, cache, crashed, batch>>

\* the offsets read is asked with; the kernel sends none below 0, so that
\* `offset as usize` is the offset itself
ReadOffsets == {0, 5, Len(HELLO_TXT_CONTENT), Len(HELLO_TXT_CONTENT) + 1}

\* whether the slice [start..] of `len` bytes exists
SliceStartInRange(start, len) == start <= len

\* read(ino, offset): &HELLO_TXT_CONTENT.as_bytes()[offset as usize..] panics
\* when the start is beyond the length
read_outcome(ino, offset) ==
    IF ino = 2
    THEN IF SliceStartInRange(offset, Len(HELLO_TXT_CONTENT))
         THEN [panic |-> FALSE,
               replies |-> <<ReplyData(SubSeq(HELLO_TXT_CONTENT, offset + 1,
                                              Len(HELLO_TXT_CONTENT)))>>]
         ELSE [panic |-> TRUE, replies |-> <<>>]
    ELSE [panic |-> FALSE, replies |-> <<ReplyError(ENOENT)>>]

read ==
    /\ Idle
    /\ \E ino \in ReqInodes, offset \in ReadOffsets :
           LET out == read_outcome(ino, offset)
           IN  /\ last' = Request("read", ino, "", offset, out.replies, <<>>)
               /\ crashed' = out.panic
    /\ UNCHANGED <<hasher, directory, namespace_directory, cache, batch>>

DirEntry(ino, ftype, name) == [ino |-> ino, ftype |-> ftype, name |-> name]

\* the children readdir pushes for the root: the keys and names of `directory`
RootEntries ==
    LET keys == SortedSeq(DOMAIN directory)
    IN  [i \in 1..Len(keys) |->
            DirEntry(keys[i], "Directory", reference_name(directory[keys[i]]))]

\* children numbered by their place in the listing instead of their hash
NamespaceEntries_by_position(nd, ino) ==
    LET namespaced_resources == find_namespaced_resources(nd, ino)
    IN  [i \in 1..Len(namespaced_resources) |->
            DirEntry(ino * 10 + i,
                     namespaced_resources[i].file_type,
                     reference_name(namespaced_resources[i]))]

\* the children readdir pushes for any other identifier
NamespaceEntries(nd, ino) ==
    LET namespaced_resources == find_namespaced_resources(nd, ino)
    IN  [i \in 1..Len(namespaced_resources) |->
            DirEntry(inode(namespaced_resources[i]),
                     namespaced_resources[i].file_type,
                     reference_name(namespaced_resources[i]))]

\* the skip that takes the offset for the position of the first entry wanted:
\* it starts at the entry whose cursor is the offset
Emitted_from_cursor(entries, offset) ==
    LET skip == IF offset = 0 THEN 0 ELSE offset - 1
        from == IF skip > Len(entries) THEN Len(entries) ELSE skip
    IN  [i \in 1..(Len(entries) - from) |->
            [ino |-> entries[from + i].ino, cursor |-> from + i,
             ftype |-> entries[from + i].ftype, name |-> entries[from + i].name]]

\* the loop that adds each entry with the cursor idx, not idx + 1
Emitted_cursor_idx(entries, offset) ==
    LET from == IF offset > Len(entries) THEN Len(entries) ELSE offset
    IN  [i \in 1..(Len(entries) - from) |->
            [ino |-> entries[from + i].ino, cursor |-> from + i - 1,
             ftype |-> entries[from + i].ftype, name |-> entries[from + i].name]]

\* entries.into_iter().enumerate().skip(offset as usize), each added with the
\* cursor idx + 1
Emitted(entries, offset) ==
    LET from == IF offset > Len(entries) THEN Len(entries) ELSE offset
    IN  [i \in 1..(Len(entries) - from) |->
            [ino |-> entries[from + i].ino, cursor |-> from + i,
             ftype |-> entries[from + i].ftype, name |-> entries[from + i].name]]

\* readdir that fetches only what the tree store does not hold yet, as lookup
\* does
readdir_cached(ino, offset, result) ==
    LET dots == <<DirEntry(ino, "Directory", "."), DirEntry(ino, "Directory", "..")>>
    IN  IF ino = ROOT
        THEN [pop |-> NotPopulated,
              replies |-> <<ReplyDirectory(Emitted(dots \o RootEntries, offset))>>]
        ELSE LET pop == IF ino \notin DOMAIN namespace_directory
                        THEN populate_namespaces_directory(ino, result)
                        ELSE NotPopulated
             IN  [pop |-> pop,
                  replies |-> IF pop.panic THEN <<>>
                              ELSE <<ReplyDirectory(
                                       Emitted(dots \o NamespaceEntries(pop.nd, ino),
                                               offset))>>]

\* readdir(ino, offset) when get_pods would return `result`
readdir_outcome(ino, offset, result) ==
    LET dots == <<DirEntry(ino, "Directory", "."), DirEntry(ino, "Directory", "..")>>
    IN  IF ino = ROOT
        THEN [pop |-> NotPopulated,
              replies |-> <<ReplyDirectory(Emitted(dots \o RootEntries, offset))>>]
        ELSE LET pop == IF ~cache
                        THEN populate_namespaces_directory(ino, result)
                        ELSE \* unimplemented!()
                             [panic |-> TRUE, fetched |-> <<>>,
                              nd |-> namespace_directory]
             IN  [pop |-> pop,
                  replies |-> IF pop.panic THEN <<>>
                              ELSE <<ReplyDirectory(
                                       Emitted(dots \o NamespaceEntries(pop.nd, ino),
                                               offset))>>]

\* readdir that registers the pods it fetched in `directory` as well
readdir_registers_pods(ino, offset) ==
    \E result \in FetchResults :
        LET out == readdir_outcome(ino, offset, result)
            pods == find_namespaced_resources(out.pop.nd, ino)
        IN  /\ last' = Request("readdir", ino, "", offset, out.replies,
                               out.pop.fetched)
            /\ namespace_directory' = out.pop.nd
            /\ crashed' = out.pop.panic
            /\ directory' = [k \in (DOMAIN directory) \cup
                                    {inode(pods[j]) : j \in 1..Len(pods)} |->
                                IF k \in DOMAIN directory THEN directory[k]
                                ELSE CHOOSE r \in Range(pods) : inode(r) = k]
            /\ UNCHANGED cache

\* what the handler readdir does to the filesystem and to its reply handle
readdir_step(ino, offset) ==
    \E result \in FetchResults :
        LET out == readdir_outcome(ino, offset, result)
        IN  /\ last' = Request("readdir", ino, "", offset, out.replies,
                               out.pop.fetched)
            /\ namespace_directory' = out.pop.nd
            /\ crashed' = out.pop.panic
            /\ UNCHANGED <<directory, cache>>

readdir ==
    /\ Idle
    /\ \E ino \in ReqInodes, offset \in 0..MaxOffset : readdir_step(ino, offset)
    /\ UNCHANGED <<hasher, batch>>

----------------------------------------------------------------------------
(* Filesystem for KubeFS: the handlers that read no argument and no state *)

\* a handler whose body is one call on its reply handle; `ino` is the
\* identifier the request carries, which the handler does not read
Serve(op, replies) ==
    /\ Idle
    /\ \E ino \in ReqInodes : last' = Request(op, ino, "", 0, replies, <<>>)
    /\ UNCHANGED <<hasher, directory, namespace_directory, cache, crashed, batch>>

setattr == Serve("setattr", <<ReplyError(ENOSYS)>>)

readlink == Serve("readlink", <<ReplyError(ENOSYS)>>)

mknod == Serve("mknod", <<ReplyError(ENOSYS)>>)

mkdir == Serve("mkdir", <<ReplyError(ENOSYS)>>)

\* unlink that acknowledges the removal
unlink_acknowledges == Serve("unlink", <<ReplyOk>>)

unlink == Serve("unlink", <<ReplyError(ENOSYS)>>)

rmdir == Serve("rmdir", <<ReplyError(ENOSYS)>>)

symlink == Serve("symlink", <<ReplyError(ENOSYS)>>)

rename == Serve("rename", <<ReplyError(ENOSYS)>>)

link == Serve("link", <<ReplyError(ENOSYS)>>)

write == Serve("write", <<ReplyError(ENOSYS)>>)

open == Serve("open", <<ReplyOpened>>)

flush == Serve("flush", <<ReplyError(ENOSYS)>>)

fsync == Serve("fsync", <<ReplyError(ENOSYS)>>)

release == Serve("release", <<ReplyOk>>)

opendir == Serve("opendir", <<ReplyOpened>>)

releasedir == Serve("releasedir", <<ReplyOk>>)

fsyncdir == Serve("fsyncdir", <<ReplyError(ENOSYS)>>)

statfs == Serve("statfs", <<ReplyStatfs>>)

setxattr == Serve("setxattr", <<ReplyError(ENOSYS)>>)

getxattr == Serve("getxattr", <<ReplyError(ENOSYS)>>)

listxattr == Serve("listxattr", <<ReplyError(ENOSYS)>>)

removexattr == Serve("removexattr", <<ReplyError(ENOSYS)>>)

access == Serve("access", <<ReplyError(ENOSYS)>>)

create == Serve("create", <<ReplyError(ENOSYS)>>)

getlk == Serve("getlk", <<ReplyError(ENOSYS)>>)

setlk == Serve("setlk", <<ReplyError(ENOSYS)>>)

bmap == Serve("bmap", <<ReplyError(ENOSYS)>>)

setvolname == Serve("setvolname", <<ReplyError(ENOSYS)>>)

exchange == Serve("exchange", <<ReplyError(ENOSYS)>>)

getxtimes == Serve("getxtimes", <<ReplyError(ENOSYS)>>)

\* the handlers that answer ENOSYS
UnsupportedOps ==
    {"setattr", "readlink", "mknod", "mkdir", "unlink", "rmdir", "symlink",
     "rename", "link", "write", "flush", "fsync", "fsyncdir", "setxattr",
     "getxattr", "listxattr", "removexattr", "access", "create", "getlk",
     "setlk", "bmap", "setvolname", "exchange", "getxtimes"}

\* the handlers that acknowledge without doing anything
NoOpOps == {"open", "opendir", "release", "releasedir", "statfs"}

\* One disjunct for each handler that is given a reply handle. init, destroy
\* and forget have none and have empty bodies: they are no steps here.
Next ==
    \/ lookup
    \/ getattr
    \/ read
    \/ readdir
    \/ setattr
    \/ readlink
    \/ mknod
    \/ mkdir
    \/ unlink
    \/ rmdir
    \/ symlink
    \/ rename
    \/ link
    \/ write
    \/ open
    \/ flush
    \/ release
    \/ fsync
    \/ opendir
    \/ releasedir
    \/ fsyncdir
    \/ statfs
    \/ setxattr
    \/ getxattr
    \/ listxattr
    \/ removexattr
    \/ access
    \/ create
    \/ getlk
    \/ setlk
    \/ bmap
    \/ setvolname
    \/ exchange
    \/ getxtimes
    \/ complete

Spec == Init /\ [][Next]_vars

----------------------------------------------------------------------------
(* Two requests at the same time *)

\* The kernel sends two requests for one namespace directory before the
\* session takes either: each a readdir from offset 0 or a lookup. Nothing
\* has populated the namespace yet.
arrive ==
    /\ Idle
    /\ batch = NoBatch
    /\ namespace_directory = EmptyMap
    /\ \E i \in (DOMAIN directory) \ {ROOT} :
           LET requests == {Pending("readdir", i, "", 0)} \cup
                           {Pending("lookup", i, n, 0) : n \in PodNames}
           IN  \E first \in requests, second \in requests :
                   batch' = [pending |-> <<first, second>>, served |-> <<>>]
    /\ UNCHANGED <<hasher, directory, namespace_directory, cache, crashed, last>>

\* The handlers take `&mut self`: the session gives the filesystem to one
\* handler at a time, so the waiting requests are served one after the other,
\* each to its return.
serve_readdir ==
    /\ Idle
    /\ batch.pending # <<>>
    /\ Head(batch.pending).op = "readdir"
    /\ readdir_step(Head(batch.pending).ino, Head(batch.pending).offset)
    /\ batch' = [batch EXCEPT !.pending = Tail(@)]
    /\ UNCHANGED hasher

serve_lookup ==
    /\ Idle
    /\ batch.pending # <<>>
    /\ Head(batch.pending).op = "lookup"
    /\ lookup_step(Head(batch.pending).ino, Head(batch.pending).name)
    /\ batch' = [batch EXCEPT !.pending = Tail(@)]
    /\ UNCHANGED hasher

NextBatch ==
    \/ arrive
    \/ serve_readdir
    \/ serve_lookup
    \/ complete

SpecBatch == Init /\ [][NextBatch]_vars

----------------------------------------------------------------------------
(* What the claims speak of *)

\* a handler has run (to its return or to a panic) on the request in `last`
Served == last.op # "none"

\* the identifiers of the pods in the tree store
KnownPodInodes ==
    UNION {{inode(r) : r \in Range(namespace_directory[i])} :
              i \in DOMAIN namespace_directory}

\* the identifiers the tree store knows: the root, the namespaces, the pods
Known(ino) ==
    ino = ROOT \/ ino \in DOMAIN directory \/ ino \in KnownPodInodes

\* a call of get_pods made for the request in `last` returned Err
FetchFailed == \E i \in 1..Len(last.fetched) : ~last.fetched[i].ok

\* the names of the children the tree store holds for `parent`
ChildNames(parent) ==
    IF parent = ROOT
    THEN {reference_name(directory[i]) : i \in DOMAIN directory}
    ELSE IF parent \in DOMAIN namespace_directory
         THEN {reference_name(r) : r \in Range(namespace_directory[parent])}
         ELSE {}

----------------------------------------------------------------------------
(* C1 *)

\* C1: every handler sends exactly one reply on its reply handle, never zero
\* and never two, for every request and every argument value; a lookup whose
\* name matches no child of the parent still sends one.
C1_ReplyExactlyOnce == Served => Len(last.replies) = 1

\* a lookup under the root for a name no namespace has returned normally
C1_Witness ==
    /\ last.op = "lookup" /\ last.ino = ROOT /\ ~crashed
    /\ last.name \notin ChildNames(ROOT)

----------------------------------------------------------------------------
(* C2 *)

\* C2: lookup(parent, name) replies ENOENT whenever name matches no child of
\* parent, for the root and for a namespace identifier, and replies with an
\* entry only when a child of exactly that name exists.
C2_LookupNoMatchENOENT ==
    (/\ last.op = "lookup" /\ ~crashed
     /\ last.ino = ROOT \/ last.ino \in DOMAIN directory) =>
        /\ last.name \notin ChildNames(last.ino) =>
               last.replies = <<ReplyError(ENOENT)>>
        /\ (\E i \in 1..Len(last.replies) : last.replies[i].kind = "entry") =>
               last.name \in ChildNames(last.ino)

\* a lookup in a populated namespace for a name none of its pods has
C2_Witness ==
    /\ last.op = "lookup" /\ ~crashed
    /\ last.ino # ROOT /\ last.ino \in DOMAIN namespace_directory
    /\ last.name \notin ChildNames(last.ino)

----------------------------------------------------------------------------
(* C3 *)

----------------------------------------------------------------------------
(* C4 *)

\* C4: a failed get_pods is an error of the one request: the readdir or
\* lookup that called it replies ENOENT and the handler does not panic.
C4_FetchFailureRecoverable ==
    (last.op \in {"lookup", "readdir"} /\ FetchFailed) =>
        /\ ~crashed
        /\ last.replies = <<ReplyError(ENOENT)>>

----------------------------------------------------------------------------
(* C5 *)

\* the entry points that would change the filesystem
MutatingOps ==
    {"setattr", "mknod", "mkdir", "unlink", "rmdir", "symlink", "rename",
     "link", "write", "create", "setxattr", "removexattr", "getlk", "setlk",
     "flush", "fsync", "fsyncdir", "bmap", "setvolname", "exchange"}

\* C5: every mutating operation replies ENOSYS, and only that, in every state
\* of the tree store and for every identifier; none panics.
C5_MutatingNotSupported ==
    last.op \in MutatingOps =>
        /\ last.replies = <<ReplyError(ENOSYS)>>
        /\ ~crashed

\* an unlink asked of a namespace whose pods are in the tree store
C5_Witness ==
    /\ last.op = "unlink"
    /\ last.ino \in DOMAIN namespace_directory
    /\ namespace_directory[last.ino] # <<>>

----------------------------------------------------------------------------
(* C6 *)

\* the children readdir(root, 0) reports: its entries after "." and ".."
RootListing ==
    LET replies == readdir_outcome(ROOT, 0, [ok |-> FALSE, pods |-> <<>>]).replies
    IN  {replies[1].entries[i] : i \in 3..Len(replies[1].entries)}

\* C6: in every state, for every namespace readdir(root, 0) reports with
\* identifier i under a name, lookup(root, name) replies with one entry whose
\* identifier is i.
C6_ListingLookupRoundTrip ==
    /\ \A e \in RootListing :
           LET replies ==
                   lookup_outcome(ROOT, e.name, [ok |-> FALSE, pods |-> <<>>]).replies
           IN  /\ Len(replies) = 1
               /\ replies[1].kind = "entry"
               /\ replies[1].attr.ino = e.ino
    /\ (last.op = "lookup" /\ last.ino = ROOT) =>
           \A e \in RootListing :
               e.name = last.name =>
                   /\ Len(last.replies) = 1
                   /\ last.replies[1].kind = "entry"
                   /\ last.replies[1].attr.ino = e.ino

\* a lookup under the root of one of two listed namespaces was answered
C6_Witness ==
    /\ last.op = "lookup" /\ last.ino = ROOT
    /\ Cardinality(RootListing) = 2
    /\ \E e \in RootListing : e.name = last.name /\ e.ino # ROOT
    /\ Len(last.replies) = 1

----------------------------------------------------------------------------
(* C7 *)

\* C7: lookup(namespace, pod) for a pod of the namespace's listing replies
\* with one entry whose attributes have the kind regular file, the entry type
\* readdir reports for the same pod.
C7_PodLookupIsFile ==
    (/\ last.op = "lookup" /\ ~crashed
     /\ last.ino # ROOT /\ last.ino \in DOMAIN namespace_directory
     /\ last.name \in ChildNames(last.ino)) =>
        /\ Len(last.replies) = 1
        /\ last.replies[1].kind = "entry"
        /\ last.replies[1].attr.kind = "RegularFile"
        /\ \A j \in 1..Len(NamespaceEntries(namespace_directory, last.ino)) :
               LET e == NamespaceEntries(namespace_directory, last.ino)[j]
               IN  e.name = last.name => last.replies[1].attr.kind = e.ftype

----------------------------------------------------------------------------
(* C8 *)

\* C8: readdir of an identifier the tree store does not know replies ENOENT,
\* without a panic and without a call of get_pods.
C8_ReaddirUnknownENOENT ==
    (last.op = "readdir" /\ ~Known(last.ino)) =>
        /\ ~crashed
        /\ last.replies = <<ReplyError(ENOENT)>>
        /\ last.fetched = <<>>

----------------------------------------------------------------------------
(* C9 *)

\* a pod of the tree store whose identifier is that of no directory
Leaf(ino) ==
    ino \in KnownPodInodes /\ ino # ROOT /\ ino \notin DOMAIN directory

\* C9: readdir(pod, 0) completes with a listing that has no child entry, and
\* lookup(pod, name) finds nothing; neither panics nor calls get_pods.
C9_LeafHasNoChildren ==
    /\ (last.op = "readdir" /\ last.offset = 0 /\ Leaf(last.ino)) =>
           /\ ~crashed
           /\ last.fetched = <<>>
           /\ Len(last.replies) = 1
           /\ last.replies[1].kind = "directory"
           /\ \A j \in 1..Len(last.replies[1].entries) :
                  last.replies[1].entries[j].name \in {".", ".."}
    /\ (last.op = "lookup" /\ Leaf(last.ino)) =>
           /\ ~crashed
           /\ last.fetched = <<>>
           /\ \A j \in 1..Len(last.replies) : last.replies[j].kind # "entry"

----------------------------------------------------------------------------
(* C10 *)

\* C10: getattr of an identifier the tree store does not know replies ENOENT;
\* attributes are the reply only for the root and for registered resources.
C10_GetattrUnknownENOENT ==
    last.op = "getattr" =>
        /\ ~Known(last.ino) => last.replies = <<ReplyError(ENOENT)>>
        /\ (\E j \in 1..Len(last.replies) : last.replies[j].kind = "attr") =>
               Known(last.ino)

----------------------------------------------------------------------------
(* C11 *)

\* the entry type of the resource the tree store holds under `ino`
EntryTypes(ino) ==
    (IF ino \in DOMAIN directory THEN {directory[ino].file_type} ELSE {}) \cup
    UNION {{r.file_type : r \in {x \in Range(namespace_directory[i]) :
                                     inode(x) = ino}} :
              i \in DOMAIN namespace_directory}

\* C11: getattr of a registered namespace or pod replies with that resource's
\* own record: the identifier of the reply is the one asked for and the kind
\* is the resource's entry type.
C11_GetattrOwnRecord ==
    (last.op = "getattr" /\ EntryTypes(last.ino) # {}) =>
        /\ Len(last.replies) = 1
        /\ last.replies[1].kind = "attr"
        /\ last.replies[1].attr.ino = last.ino
        /\ last.replies[1].attr.kind \in EntryTypes(last.ino)

----------------------------------------------------------------------------
(* C12 *)

EISDIR == "EISDIR"

\* C12: read of the root or of a namespace replies EISDIR, read of an
\* identifier the tree store does not know replies ENOENT.
C12_ReadDirectoryEISDIR ==
    last.op = "read" =>
        /\ (last.ino = ROOT \/ last.ino \in DOMAIN directory) =>
               last.replies = <<ReplyError(EISDIR)>>
        /\ ~Known(last.ino) => last.replies = <<ReplyError(ENOENT)>>

----------------------------------------------------------------------------
(* C13 *)

\* the placeholder payload from `offset` on, empty at and beyond its end
Payload(offset) ==
    IF offset >= Len(HELLO_TXT_CONTENT) THEN <<>>
    ELSE SubSeq(HELLO_TXT_CONTENT, offset + 1, Len(HELLO_TXT_CONTENT))

\* C13: read of a pod of the tree store replies with the placeholder payload
\* sliced at the offset, for every offset from 0 on, without a panic.
C13_ReadPodPayload ==
    (last.op = "read" /\ Leaf(last.ino)) =>
        /\ ~crashed
        /\ last.replies = <<ReplyData(Payload(last.offset))>>

----------------------------------------------------------------------------
(* C14 *)

\* the two requests that arrived together were readdirs and both returned
BothReaddirServed ==
    /\ Len(batch.served) = 2
    /\ batch.served[1].op = "readdir"
    /\ batch.served[2].op = "readdir"

\* the names a readdir replied, in order
ListedNames(request) ==
    [j \in 1..Len(request.replies[1].entries) |->
        request.replies[1].entries[j].name]

----------------------------------------------------------------------------
(* C15 and C18: the listing of a known directory *)

\* a readdir of the root or of a namespace whose listing the handler got:
\* the case of a failed get_pods is C4's
ListedDirectory ==
    /\ last.op = "readdir"
    /\ last.ino = ROOT \/ last.ino \in DOMAIN directory
    /\ ~FetchFailed

\* the children of the directory just listed, as the tree store holds them
\* after the handler: identifier, entry type and name
ChildrenOf(ino) ==
    IF ino = ROOT
    THEN LET keys == SortedSeq(DOMAIN directory)
         IN  [j \in 1..Len(keys) |->
                 [ino |-> keys[j], ftype |-> directory[keys[j]].file_type,
                  name |-> directory[keys[j]].name]]
    ELSE [j \in 1..Len(namespace_directory[ino]) |->
             [ino |-> hasher[namespace_directory[ino][j]],
              ftype |-> namespace_directory[ino][j].file_type,
              name |-> namespace_directory[ino][j].name]]

\* the full sequence of a listing: ".", "..", then the children
FullListing(ino) ==
    <<[ino |-> ino, ftype |-> "Directory", name |-> "."],
      [ino |-> ino, ftype |-> "Directory", name |-> ".."]>> \o ChildrenOf(ino)

----------------------------------------------------------------------------
(* C16 *)

----------------------------------------------------------------------------
(* C17 *)

\* the pods a request reported, each with the identifier it was given: the
\* children of a readdir's listing and the entry of a lookup
Reported(request) ==
    IF request.replies = <<>> THEN {}
    ELSE IF request.op = "readdir"
    THEN {[name |-> request.replies[1].entries[j].name,
           ino |-> request.replies[1].entries[j].ino] :
              j \in 3..Len(request.replies[1].entries)}
    ELSE IF request.op = "lookup"
    THEN {[name |-> request.name, ino |-> request.replies[1].attr.ino]}
    ELSE {}

\* the requests of the batch that were handled, and the one being handled
Handled == Range(batch.served) \cup {last}

\* C17: a pod name that requests on one namespace report, before and after a
\* later fetch of that namespace, is reported with one identifier by all of
\* them.
C17_StableIdentifiers ==
    \A r1 \in Handled, r2 \in Handled :
        \A a \in Reported(r1), b \in Reported(r2) :
            a.name = b.name => a.ino = b.ino

\* two readdirs listed the namespace, the second after a fetch that returned
\* another listing, and a pod of the first is in the second at another place
C17_Witness ==
    /\ BothReaddirServed
    /\ batch.served[1].fetched[1].pods # batch.served[2].fetched[1].pods
    /\ \E j \in 3..Len(batch.served[1].replies[1].entries),
          k \in 3..Len(batch.served[2].replies[1].entries) :
           /\ j # k
           /\ batch.served[1].replies[1].entries[j].name =
                  batch.served[2].replies[1].entries[k].name

----------------------------------------------------------------------------
(* C19 *)

\* C19: no request changes the namespace map built at startup, so that the
\* children of the root stay the same in the same order, and every
\* readdir(root, 0) lists exactly them after "." and "..".
C19_RootFixed ==
    [][/\ directory' = directory
       /\ RootEntries' = RootEntries
       /\ (last'.op = "readdir" /\ last'.ino = ROOT /\ last'.offset = 0) =>
              /\ Len(last'.replies) = 1
              /\ SubSeq(last'.replies[1].entries, 3,
                        Len(last'.replies[1].entries)) =
                     [j \in 1..Len(RootEntries) |->
                         [ino |-> RootEntries[j].ino, cursor |-> j + 2,
                          ftype |-> RootEntries[j].ftype,
                          name |-> RootEntries[j].name]]]_vars

\* the root was listed, with two namespaces, after the pods of a namespace
\* were fetched
C19_Witness ==
    /\ last.op = "readdir" /\ last.ino = ROOT /\ last.offset = 0
    /\ Len(last.replies[1].entries) = 4
    /\ \E i \in DOMAIN namespace_directory : namespace_directory[i] # <<>>

----------------------------------------------------------------------------
(* C20 *)

\* C20: a step that is not a readdir or a lookup on an identifier other than
\* the root changes neither the namespace map nor the children of any
\* namespace and calls get_pods not at all.
C20_OnlyNamespaceListingPopulates ==
    [][(last'.op \notin {"readdir", "lookup"} \/ last'.ino = ROOT) =>
           /\ directory' = directory
           /\ namespace_directory' = namespace_directory
           /\ last'.fetched = <<>>]_vars

\* a lookup under the root found a namespace whose pods are not fetched
C20_Witness ==
    /\ last.op = "lookup" /\ last.ino = ROOT
    /\ Len(last.replies) = 1
    /\ last.replies[1].attr.ino \notin DOMAIN namespace_directory
    /\ last.replies[1].attr.ino # ROOT

====
